---- MODULE Spec2Model ----
(***************************************************************************)
(* A model of the svi crate (src/src/lib.rs): interpolate_variables and    *)
(* replace_in_string.                                                      *)
(*                                                                         *)
(* A Rust &str is modelled as a sequence of characters; each character is  *)
(* a TLA+ string.  The character "U+00E9" stands for a character whose     *)
(* UTF-8 encoding is two bytes long: byte ranges such as val.get(0..1)     *)
(* are sensitive to that.                                                  *)
(***************************************************************************)
EXTENDS Integers, Sequences, FiniteSets, TLC

VARIABLES
  input,                     \* interpolate_variables: input
  variables,                 \* interpolate_variables: variables (HashMap)
  interpolator,              \* interpolate_variables: interpolator
  fail_on_missing_variable,  \* interpolate_variables: fail_on_missing_variable
  pc,                        \* position in interpolate_variables
  open_split,                \* the VecDeque open_split
  i,                         \* number of elements of open_split already processed
  result,                    \* the String result
  replacers,                 \* the HashSet replacers
  lookups,                   \* the keys variables.get was called with, in order
  ret,                       \* the value returned by interpolate_variables
  r_input,                   \* replace_in_string: input of the first call
  r_replacers,               \* replace_in_string: the replacers, in iteration order
  r_pc,                      \* position in replace_in_string
  r_k,                       \* number of replacers already applied in this call
  r_result,                  \* replace_in_string: result
  r_out                      \* the values returned by the calls made so far

vars == <<input, variables, interpolator, fail_on_missing_variable, pc, open_split,
          i, result, replacers, lookups, ret,
          r_input, r_replacers, r_pc, r_k, r_result, r_out>>

ivars == <<input, variables, interpolator, fail_on_missing_variable, pc, open_split,
           i, result, replacers, lookups, ret>>

rvars == <<r_input, r_replacers, r_pc, r_k, r_result, r_out>>

----------------------------------------------------------------------------
(* Bounds of the model.                                                    *)

\* longest input of interpolate_variables drawn character by character
MaxLen == 5
\* most pieces (placeholders, escaped placeholders, closers, text) of a longer input
MaxPieces == 3
\* longest input string of replace_in_string
MaxRLen == 3
\* longest value to replace
MaxValLen == 1
\* most replacers handed to replace_in_string
MaxReplacers == 2

----------------------------------------------------------------------------
(* Strings.                                                                *)

\* the number of bytes of the UTF-8 encoding of a character
Utf8Len(c) == IF c = "U+00E9" THEN 2 ELSE 1

RECURSIVE Concat(_)
\* the concatenation of a sequence of strings
Concat(ss) == IF ss = <<>> THEN <<>> ELSE Head(ss) \o Concat(Tail(ss))

\* whether pat occurs in s at position k (1-based)
OccursAt(s, pat, k) ==
  /\ k >= 1
  /\ k + Len(pat) - 1 <= Len(s)
  /\ SubSeq(s, k, k + Len(pat) - 1) = pat

\* the position of the leftmost occurrence of pat in s at or after from, or 0
FindFrom(s, pat, from) ==
  LET hits == {k \in from..(Len(s) - Len(pat) + 1) : OccursAt(s, pat, k)}
  IN  IF hits = {} THEN 0 ELSE CHOOSE k \in hits : \A h \in hits : k <= h

RECURSIVE Split(_, _)
\* str::split with a non-empty pattern: the pieces between the leftmost,
\* non-overlapping occurrences of pat; always at least one piece
Split(s, pat) ==
  LET k == FindFrom(s, pat, 1)
  IN  IF k = 0 THEN <<s>>
      ELSE <<SubSeq(s, 1, k - 1)>> \o Split(SubSeq(s, k + Len(pat), Len(s)), pat)

RECURSIVE Join(_, _)
\* [&str]::join: the pieces with sep between every two of them
Join(parts, sep) ==
  IF parts = <<>> THEN <<>>
  ELSE IF Len(parts) = 1 THEN parts[1]
  ELSE parts[1] \o sep \o Join(Tail(parts), sep)

----------------------------------------------------------------------------
(* interpolate_variables.                                                  *)

Interpolators == {"DoubleCurlyBrackets", "DoubleBrackets"}

\* (double_opener, single_opener, triple_closer, double_closer) of an interpolator
Tokens(ip) ==
  IF ip = "DoubleCurlyBrackets"
  THEN [double_opener |-> <<"{", "{">>, single_opener |-> <<"{">>,
        triple_closer |-> <<"}", "}", "}">>, double_closer |-> <<"}", "}">>]
  ELSE [double_opener |-> <<"[", "[">>, single_opener |-> <<"[">>,
        triple_closer |-> <<"]", "]", "]">>, double_closer |-> <<"]", "]">>]

\* the values of the Error enum and of Ok((result, replacers))
SplitEmpty == [tag |-> "SplitEmpty"]
FoundDoubleOpener(d) == [tag |-> "FoundDoubleOpener", double_opener |-> d]
NoClosingTags(n) == [tag |-> "NoClosingTags", index |-> n]
NoValueFound(v) == [tag |-> "NoValueFound", variable |-> v]
Ok(s, rs) == [tag |-> "Ok", output |-> s, replacers |-> rs]
NotReturned == [tag |-> "NotReturned"]

\* val.get(0..1).is_none(): the byte range 0..1 is no substring of val, because
\* val is empty or because byte 1 lies inside its first character
Get01IsNone(val) == IF Len(val) = 0 THEN TRUE ELSE Utf8Len(val[1]) > 1

\* &val[0..1] == single_opener (evaluated only when val.get(0..1) is Some)
IsTripleOpener(val, single_opener) == SubSeq(val, 1, 1) = single_opener

\* EscapedPush without the push of the initial single opener
EscapedPushWithoutOpener(val, t) ==
  LET close_split == Split(val, t.triple_closer)
  IN  close_split[1]
        \o (IF Len(close_split) > 1 THEN t.double_closer ELSE <<>>)
        \o Concat(Tail(close_split))

\* lines 77-87: what the escaped branch pushes onto result for val
EscapedPush(val, t) ==
  LET close_split == Split(val, t.triple_closer)
  IN  t.single_opener
        \o close_split[1]
        \o (IF Len(close_split) > 1 THEN t.double_closer ELSE <<>>)
        \o Concat(Tail(close_split))

\* close_split of the interpolation branch
CloseSplit(val, t) == Split(val, t.double_closer)

\* what a missing variable with fail_on_missing_variable = false pushes
Unresolved(variable, t) == t.double_opener \o variable \o t.double_closer

\* RestOfContents joining with the empty string: the closers are dropped
RestOfContentsDropsClosers(close_split, t) == Concat(Tail(close_split))

\* line 120: &close_split[1..].join(double_closer)
RestOfContents(close_split, t) == Join(Tail(close_split), t.double_closer)

\* Inserted with the pair the other way round
InsertedSwapped(set, value, variable) == set \cup {<<variable, value>>}

\* line 105: replacers.insert((value.clone(), variable.to_string()))
Inserted(set, value, variable) == set \cup {<<value, variable>>}

\* line 124: the orders in which a HashSet may be iterated
IterationOrders(S) ==
  {s \in [1..Cardinality(S) -> S] : \A a, b \in 1..Cardinality(S) : s[a] = s[b] => a = b}

\* the element of open_split the loop is at
Val == open_split[i + 1]

InLoop == pc = "loop" /\ i < Len(open_split)

\* lines 43-58: split the input by the double opener and push what precedes the first
Begin ==
  /\ pc = "start"
  /\ LET sp == Split(input, Tokens(interpolator).double_opener)
     IN  IF sp = <<>>
         THEN /\ pc' = "done"
              /\ ret' = SplitEmpty
              /\ UNCHANGED <<open_split, result>>
         ELSE /\ pc' = "loop"
              /\ open_split' = Tail(sp)
              /\ result' = Head(sp)
              /\ UNCHANGED ret
  /\ i' = 0
  /\ replacers' = {}
  /\ UNCHANGED <<input, variables, interpolator, fail_on_missing_variable, lookups>>
  /\ UNCHANGED rvars

\* lines 67-71
ReturnFoundDoubleOpener ==
  /\ InLoop
  /\ Get01IsNone(Val)
  /\ pc' = "done"
  /\ ret' = FoundDoubleOpener(Tokens(interpolator).double_opener)
  /\ UNCHANGED <<input, variables, interpolator, fail_on_missing_variable,
                 open_split, i, result, replacers, lookups>>
  /\ UNCHANGED rvars

\* lines 75-87
PushEscaped ==
  /\ InLoop
  /\ ~Get01IsNone(Val)
  /\ IsTripleOpener(Val, Tokens(interpolator).single_opener)
  /\ result' = result \o EscapedPush(Val, Tokens(interpolator))
  /\ i' = i + 1
  /\ UNCHANGED <<input, variables, interpolator, fail_on_missing_variable, pc,
                 open_split, replacers, lookups, ret>>
  /\ UNCHANGED rvars

\* lines 90-95
ReturnNoClosingTags ==
  /\ InLoop
  /\ ~Get01IsNone(Val)
  /\ ~IsTripleOpener(Val, Tokens(interpolator).single_opener)
  /\ Len(CloseSplit(Val, Tokens(interpolator))) <= 1
  /\ pc' = "done"
  /\ ret' = NoClosingTags(i)
  /\ UNCHANGED <<input, variables, interpolator, fail_on_missing_variable,
                 open_split, i, result, replacers, lookups>>
  /\ UNCHANGED rvars

\* the guard of the three arms of the match at line 100
AtMatch ==
  /\ InLoop
  /\ ~Get01IsNone(Val)
  /\ ~IsTripleOpener(Val, Tokens(interpolator).single_opener)
  /\ Len(CloseSplit(Val, Tokens(interpolator))) > 1

\* lines 101-106 and 120: (Some(value), _)
PushValue ==
  /\ AtMatch
  /\ LET t == Tokens(interpolator)
         close_split == CloseSplit(Val, t)
         variable == close_split[1]
     IN  /\ variable \in DOMAIN variables
         /\ lookups' = Append(lookups, variable)
         /\ result' = result \o variables[variable] \o RestOfContents(close_split, t)
         /\ replacers' = Inserted(replacers, variables[variable], variable)
  /\ i' = i + 1
  /\ UNCHANGED <<input, variables, interpolator, fail_on_missing_variable, pc,
                 open_split, ret>>
  /\ UNCHANGED rvars

\* lines 107-112 and 120: (None, false)
PushUnresolved ==
  /\ AtMatch
  /\ ~fail_on_missing_variable
  /\ LET t == Tokens(interpolator)
         close_split == CloseSplit(Val, t)
         variable == close_split[1]
     IN  /\ variable \notin DOMAIN variables
         /\ lookups' = Append(lookups, variable)
         /\ result' = result \o Unresolved(variable, t) \o RestOfContents(close_split, t)
  /\ i' = i + 1
  /\ UNCHANGED <<input, variables, interpolator, fail_on_missing_variable, pc,
                 open_split, replacers, ret>>
  /\ UNCHANGED rvars

\* lines 113-117: (None, true)
ReturnNoValueFound ==
  /\ AtMatch
  /\ fail_on_missing_variable
  /\ LET variable == CloseSplit(Val, Tokens(interpolator))[1]
     IN  /\ variable \notin DOMAIN variables
         /\ lookups' = Append(lookups, variable)
         /\ ret' = NoValueFound(variable)
  /\ pc' = "done"
  /\ UNCHANGED <<input, variables, interpolator, fail_on_missing_variable,
                 open_split, i, result, replacers>>
  /\ UNCHANGED rvars

\* line 124: the loop is over
ReturnOk ==
  /\ pc = "loop"
  /\ i = Len(open_split)
  /\ \E order \in IterationOrders(replacers) : ret' = Ok(result, order)
  /\ pc' = "done"
  /\ UNCHANGED <<input, variables, interpolator, fail_on_missing_variable,
                 open_split, i, result, replacers, lookups>>
  /\ UNCHANGED rvars

----------------------------------------------------------------------------
(* The calls of interpolate_variables that are explored.                   *)

\* the characters of the inputs drawn character by character
Alphabet(ip) ==
  {Tokens(ip).single_opener[1], Tokens(ip).double_closer[1], "a", "U+00E9"}

\* the strings over A of length at most n
StringsUpTo(A, n) == UNION {[1..k -> A] : k \in 0..n}

\* the pieces longer inputs are made of
Pieces(ip) ==
  LET t == Tokens(ip)
  IN  { <<"x">>,
        t.double_opener \o <<"a">> \o t.double_closer,
        t.double_opener \o <<"b">> \o t.double_closer,
        t.double_opener \o <<"c">> \o t.double_closer,
        t.double_opener \o t.single_opener \o <<"a">> \o t.triple_closer,
        t.double_closer,
        <<t.double_closer[1]>> }

Inputs(ip) ==
  StringsUpTo(Alphabet(ip), MaxLen)
    \cup {Concat(ps) : ps \in StringsUpTo(Pieces(ip), MaxPieces)}

\* the variable maps: none; an empty value and a value shared by two variables;
\* a value that holds a placeholder, a name that is not ASCII, the empty name
VarMaps(ip) ==
  LET t == Tokens(ip)
  IN  { <<>>,
        (<<"a">> :> <<>>) @@ (<<"b">> :> <<"v">>) @@ (<<"c">> :> <<"v">>),
        (<<"a">> :> (t.double_opener \o <<"b">> \o t.double_closer))
          @@ (<<"U+00E9">> :> <<"v">>) @@ (<<>> :> <<"w">>) }

RIdle ==
  /\ r_input = <<>>
  /\ r_replacers = <<>>
  /\ r_pc = "idle"
  /\ r_k = 0
  /\ r_result = <<>>
  /\ r_out = <<>>

Init ==
  /\ interpolator \in Interpolators
  /\ input \in Inputs(interpolator)
  /\ variables \in VarMaps(interpolator)
  /\ fail_on_missing_variable \in BOOLEAN
  /\ pc = "start"
  /\ open_split = <<>>
  /\ i = 0
  /\ result = <<>>
  /\ replacers = {}
  /\ lookups = <<>>
  /\ ret = NotReturned
  /\ RIdle

Next ==
  \/ Begin
  \/ ReturnFoundDoubleOpener
  \/ PushEscaped
  \/ ReturnNoClosingTags
  \/ PushValue
  \/ PushUnresolved
  \/ ReturnNoValueFound
  \/ ReturnOk

Spec == Init /\ [][Next]_vars

----------------------------------------------------------------------------
(* replace_in_string.                                                      *)

\* Replace replacing the first occurrence only (str::replacen with a count of 1)
ReplaceFirstOnly(s, from, to) ==
  IF from = <<>> THEN to \o s
  ELSE LET k == FindFrom(s, from, 1)
       IN  IF k = 0 THEN s
           ELSE SubSeq(s, 1, k - 1) \o to \o SubSeq(s, k + Len(from), Len(s))

RECURSIVE Replace(_, _, _)
\* str::replace: every leftmost, non-overlapping occurrence of from becomes to; the
\* empty pattern matches before every character and at the end
Replace(s, from, to) ==
  IF from = <<>>
  THEN LET block == Len(to) + 1
       IN  to \o [j \in 1..(Len(s) * block) |->
                    IF (j - 1) % block = 0
                    THEN s[((j - 1) \div block) + 1]
                    ELSE to[(j - 1) % block]]
  ELSE LET k == FindFrom(s, from, 1)
       IN  IF k = 0 THEN s
           ELSE SubSeq(s, 1, k - 1) \o to
                  \o Replace(SubSeq(s, k + Len(from), Len(s)), from, to)

\* format!("<{replacer}>")
Placeholder(replacer) == <<"<">> \o replacer \o <<">">>

\* line 131; a second call is given what the first returned
RBegin ==
  /\ r_pc = "call"
  /\ r_result' = IF r_out = <<>> THEN r_input ELSE r_out[Len(r_out)]
  /\ r_k' = 0
  /\ r_pc' = "loop"
  /\ UNCHANGED <<r_input, r_replacers, r_out>>
  /\ UNCHANGED ivars

\* lines 133-136: one iteration of the loop over the replacers
RReplace ==
  /\ r_pc = "loop"
  /\ r_k < Len(r_replacers)
  /\ LET to_replace == r_replacers[r_k + 1][1]
         replacer == r_replacers[r_k + 1][2]
     IN  r_result' = Replace(r_result, to_replace, Placeholder(replacer))
  /\ r_k' = r_k + 1
  /\ UNCHANGED <<r_input, r_replacers, r_pc, r_out>>
  /\ UNCHANGED ivars

\* line 138; the caller then calls once more, with the same replacers
RReturn ==
  /\ r_pc = "loop"
  /\ r_k = Len(r_replacers)
  /\ r_out' = Append(r_out, r_result)
  /\ r_pc' = IF r_out = <<>> THEN "call" ELSE "done"
  /\ UNCHANGED <<r_input, r_replacers, r_k, r_result>>
  /\ UNCHANGED ivars

\* the characters of the strings and of the values to replace
RAlphabet == {"a", "b"}

\* the names of the replacers
RNames == {<<"n">>, <<"a">>}

\* the (to_replace, replacer) pairs
REntries == StringsUpTo(RAlphabet, MaxValLen) \X RNames

IIdle ==
  /\ input = <<>>
  /\ variables = <<>>
  /\ interpolator = "DoubleBrackets"
  /\ fail_on_missing_variable = FALSE
  /\ pc = "idle"
  /\ open_split = <<>>
  /\ i = 0
  /\ result = <<>>
  /\ replacers = {}
  /\ lookups = <<>>
  /\ ret = NotReturned

InitRedact ==
  /\ IIdle
  /\ r_input \in StringsUpTo(RAlphabet, MaxRLen)
  /\ r_replacers \in StringsUpTo(REntries, MaxReplacers)
  \* an empty value multiplies the length of the string by four each time it is
  \* replaced: at most one of the replacers has it
  /\ \A a, b \in DOMAIN r_replacers :
       r_replacers[a][1] = <<>> /\ r_replacers[b][1] = <<>> => a = b
  /\ r_pc = "call"
  /\ r_k = 0
  /\ r_result = <<>>
  /\ r_out = <<>>

NextRedact ==
  \/ RBegin
  \/ RReplace
  \/ RReturn

SpecRedact == InitRedact /\ [][NextRedact]_vars

----------------------------------------------------------------------------
(* The input as the specification describes it, by positions: the          *)
(* placeholders of the input, their names and what follows them.  Nothing  *)
(* here uses the operators that model the code.                            *)

T == Tokens(interpolator)
OpenChar == T.single_opener[1]
CloseChar == T.double_closer[1]

\* the first position of the run of characters c that position p of s lies in
RunStart(s, c, p) ==
  CHOOSE q \in 1..p :
    /\ \A k \in q..p : s[k] = c
    /\ q = 1 \/ s[q - 1] # c

\* the positions of the double-openers of the input, read left to right: a run of
\* opener characters holds one at every second position, starting at its first
Openers ==
  {p \in 1..(Len(input) - 1) :
     /\ input[p] = OpenChar
     /\ input[p + 1] = OpenChar
     /\ (p - RunStart(input, OpenChar, p)) % 2 = 0}

\* the 0-based position of the double-opener at p among the double-openers
IndexOf(p) == Cardinality({q \in Openers : q < p})

\* the last position of the segment of the double-opener at p: the text up to the
\* next double-opener or the end of the input
SegEnd(p) ==
  LET later == {q \in Openers : q > p}
  IN  IF later = {} THEN Len(input)
      ELSE (CHOOSE q \in later : \A r \in later : q <= r) - 1

\* the segment of the double-opener at p
Seg(p) == SubSeq(input, p + 2, SegEnd(p))

\* the position of the first double-closer of the segment of p, or 0
FirstCloser(p) ==
  LET hits == {k \in (p + 2)..(SegEnd(p) - 1) :
                 input[k] = CloseChar /\ input[k + 1] = CloseChar}
  IN  IF hits = {} THEN 0 ELSE CHOOSE k \in hits : \A h \in hits : k <= h

\* the name of the placeholder at p: the text between its double-opener and the
\* first double-closer that follows
NameAt(p) == SubSeq(input, p + 2, FirstCloser(p) - 1)

\* the text of the segment of p after the double-closer that closes the placeholder
AfterCloser(p) == SubSeq(input, FirstCloser(p) + 2, SegEnd(p))

\* what section 4.1 of the specification says of the segment of p
SegKind(p) ==
  IF Seg(p) = <<>> THEN "double_opener"
  ELSE IF Seg(p)[1] = OpenChar THEN "escaped"
  ELSE IF FirstCloser(p) = 0 THEN "unclosed"
  ELSE IF NameAt(p) \in DOMAIN variables THEN "resolved"
  ELSE "missing"

\* whether the call fails at the segment of p
Fails(p) ==
  \/ SegKind(p) \in {"double_opener", "unclosed"}
  \/ SegKind(p) = "missing" /\ fail_on_missing_variable

\* the position of the leftmost failing segment, or 0
FirstFailing ==
  LET failing == {p \in Openers : Fails(p)}
  IN  IF failing = {} THEN 0 ELSE CHOOSE p \in failing : \A q \in failing : p <= q

\* the text before the first double-opener
BeforeOpeners ==
  IF Openers = {} THEN input
  ELSE SubSeq(input, 1, (CHOOSE p \in Openers : \A q \in Openers : p <= q) - 1)

\* the double-openers in input order
OpenersInOrder ==
  CHOOSE s \in [1..Cardinality(Openers) -> Openers] :
    \A a, b \in 1..Cardinality(Openers) : a < b => s[a] < s[b]

\* whether x holds one of the four tokens of the style
HasToken(x) ==
  \/ \E k \in 1..Len(x) : x[k] = OpenChar
  \/ \E k \in 1..(Len(x) - 1) : x[k] = CloseChar /\ x[k + 1] = CloseChar

\* whether x holds a bracket character of the style
HasBracket(x) == \E k \in 1..Len(x) : x[k] \in {OpenChar, CloseChar}

\* the elements of a sequence
Range(f) == {f[k] : k \in DOMAIN f}

----------------------------------------------------------------------------
(* The claims.                                                             *)

Done == pc = "done"

\* C1: substitution correctness.  Whenever the input is pre + double-opener + NAME
\* + double-closer + post, with no token of the style in pre and post, no bracket
\* character in NAME and NAME a key of the map, the call returns Ok with the output
\* pre + variables[NAME] + post and the one redaction entry (variables[NAME], NAME),
\* under either policy.
C1_Substitution ==
  Done =>
    \A p \in 0..Len(input) : \A n \in 0..Len(input) :
      LET pre == SubSeq(input, 1, p)
          name == SubSeq(input, p + 3, p + 2 + n)
          post == SubSeq(input, p + n + 5, Len(input))
      IN  ( /\ p + n + 4 <= Len(input)
            /\ OccursAt(input, T.double_opener, p + 1)
            /\ OccursAt(input, T.double_closer, p + n + 3)
            /\ ~HasToken(pre)
            /\ ~HasToken(post)
            /\ ~HasBracket(name)
            /\ name \in DOMAIN variables )
          => ret = Ok(pre \o variables[name] \o post, << <<variables[name], name>> >>)

RECURSIVE EscapedTemplate(_)
\* Reads s as delimiter-free text and escaped placeholders (triple opener, a name
\* without bracket characters, triple closer): whether s is of that form, s with one
\* bracket layer stripped from each escaped placeholder, and how many there are.
EscapedTemplate(s) ==
  IF s = <<>> THEN [ok |-> TRUE, out |-> <<>>, n |-> 0]
  ELSE IF OccursAt(s, T.double_opener \o T.single_opener, 1)
  THEN LET brackets == {k \in 4..Len(s) : s[k] \in {OpenChar, CloseChar}}
           stop == IF brackets = {} THEN Len(s) + 1
                   ELSE CHOOSE k \in brackets : \A h \in brackets : k <= h
           rest == EscapedTemplate(SubSeq(s, stop + 3, Len(s)))
       IN  IF OccursAt(s, T.triple_closer, stop)
           THEN [ok |-> rest.ok,
                 out |-> T.double_opener \o SubSeq(s, 4, stop - 1) \o T.double_closer
                           \o rest.out,
                 n |-> rest.n + 1]
           ELSE [ok |-> FALSE, out |-> <<>>, n |-> 0]
  ELSE IF s[1] = OpenChar \/ OccursAt(s, T.double_closer, 1)
  THEN [ok |-> FALSE, out |-> <<>>, n |-> 0]
  ELSE LET rest == EscapedTemplate(Tail(s))
       IN  [ok |-> rest.ok, out |-> <<s[1]>> \o rest.out, n |-> rest.n]

\* C2: escape round-trip.  For an input made of delimiter-free text and at least one
\* escaped placeholder, no variable is ever looked up, and the call returns Ok with
\* every escaped placeholder emitted as the double-delimited placeholder and with no
\* redaction entry, whatever the map and the policy.
C2_EscapeRoundTrip ==
  LET e == EscapedTemplate(input)
  IN  (e.ok /\ e.n >= 1) =>
        /\ lookups = <<>>
        /\ Done => ret = Ok(e.out, <<>>)

\* C2, witness: a call with two escaped placeholders whose name is in the map,
\* failing on missing variables, has returned.
C2_Witness ==
  /\ Done
  /\ EscapedTemplate(input).ok
  /\ EscapedTemplate(input).n >= 2
  /\ <<"a">> \in DOMAIN variables
  /\ fail_on_missing_variable

\* C3: missing-variable failure.  With fail_on_missing_variable, when the leftmost
\* failing segment is a closed, non-escaped placeholder whose name is not in the map,
\* the call returns NoValueFound with exactly that name.
C3_MissingVariableFails ==
  (Done /\ fail_on_missing_variable /\ FirstFailing # 0) =>
    (SegKind(FirstFailing) = "missing" => ret = NoValueFound(NameAt(FirstFailing)))

\* C4: identity on unresolvable input.  With fail_on_missing_variable = false, an
\* input whose every double-opener starts a closed, non-escaped placeholder with a
\* name that is not in the map is returned unchanged with no redaction entry; an
\* input without any double-opener is, under either policy.
C4_IdentityOnUnresolvable ==
  LET unresolvable ==
        /\ ~fail_on_missing_variable
        /\ \A p \in Openers : SegKind(p) = "missing"
  IN  (Done /\ (Openers = {} \/ unresolvable)) => ret = Ok(input, <<>>)

\* what a resolved or unresolved placeholder at p is to become
Emitted(p) ==
  IF NameAt(p) \in DOMAIN variables
  THEN variables[NameAt(p)]
  ELSE T.double_opener \o NameAt(p) \o T.double_closer

\* C5: unmatched closer tolerance.  A segment that holds a double-closer is never
\* reported as NoClosingTags; and when the call succeeds on an input without escaped
\* segments, the output is the text before the first double-opener followed, for
\* each placeholder in order, by what the placeholder resolves to and then by all
\* the text of its segment after its first double-closer, further double-closers
\* included, unchanged.
C5_StrayClosersAreLiteral ==
  Done =>
    /\ ret.tag = "NoClosingTags" =>
         \A p \in Openers : IndexOf(p) = ret.index => FirstCloser(p) = 0
    /\ (ret.tag = "Ok" /\ \A p \in Openers : SegKind(p) # "escaped") =>
         ret.output =
           BeforeOpeners
             \o Concat([k \in 1..Cardinality(Openers) |->
                          Emitted(OpenersInOrder[k]) \o AfterCloser(OpenersInOrder[k])])

\* C5, witness: a successful call whose input has a resolved placeholder followed,
\* in the same segment, by a further double-closer.
C5_Witness ==
  /\ Done
  /\ ret.tag = "Ok"
  /\ \E p \in Openers :
       /\ SegKind(p) = "resolved"
       /\ HasToken(AfterCloser(p))
       /\ AfterCloser(p) # T.double_closer
  /\ \A p \in Openers : SegKind(p) # "escaped"

\* C6: the redaction entries of a successful call are, once each, the pairs
\* (variables[name], name) of the names of the non-escaped placeholders of the input
\* that are keys of the map, and nothing else.
C6_RedactionEntries ==
  (Done /\ ret.tag = "Ok") =>
    LET names == {NameAt(p) : p \in {q \in Openers : SegKind(q) # "escaped"}}
    IN  /\ Range(ret.replacers) =
             {<<variables[n], n>> : n \in names \cap DOMAIN variables}
        /\ Cardinality(Range(ret.replacers)) = Len(ret.replacers)

\* C6, witness: a successful call with three resolved placeholders, two of them of
\* the same variable, whose value is empty, and two entries.
C6_Witness ==
  /\ Done
  /\ ret.tag = "Ok"
  /\ Len(lookups) = 3
  /\ Len(ret.replacers) = 2
  /\ <<<<>>, <<"a">>>> \in Range(ret.replacers)
  /\ \E p, q \in Openers : p # q /\ NameAt(p) = NameAt(q)


\* whether two values overlap: one occurs in the other, or an end of one is a
\* beginning of the other
Overlap(v, w) ==
  \/ \E k \in 1..Len(w) : OccursAt(w, v, k)
  \/ \E k \in 1..Len(v) : OccursAt(v, w, k)
  \/ \E n \in 1..Len(v) :
       n <= Len(w) /\ SubSeq(v, Len(v) - n + 1, Len(v)) = SubSeq(w, 1, n)
  \/ \E n \in 1..Len(w) :
       n <= Len(v) /\ SubSeq(w, Len(w) - n + 1, Len(w)) = SubSeq(v, 1, n)

\* no two replacers have overlapping values
NoOverlap ==
  \A a, b \in DOMAIN r_replacers :
    a # b => ~Overlap(r_replacers[a][1], r_replacers[b][1])

\* no value is empty or shares a character with a placeholder "<name>"
ValuesApartFromPlaceholders ==
  \A a, b \in DOMAIN r_replacers :
    /\ r_replacers[a][1] # <<>>
    /\ Range(r_replacers[a][1]) \cap Range(Placeholder(r_replacers[b][2])) = {}

\* whether some value to replace occurs in s
SomeValueOccurs(s) ==
  \E a \in DOMAIN r_replacers :
    \/ r_replacers[a][1] = <<>>
    \/ \E k \in 1..Len(s) : OccursAt(s, r_replacers[a][1], k)

\* C7, as stated: redaction idempotence.  For replacers whose values do not
\* overlap, a second replace_in_string with the same replacers returns what the
\* first returned, no value occurring any more after the first.
C7_Idempotent ==
  (r_pc = "done" /\ NoOverlap) =>
    /\ r_out[2] = r_out[1]
    /\ ~SomeValueOccurs(r_out[1])

\* C7, amended: the same, for replacers whose values moreover are not empty and
\* share no character with any of the placeholders "<name>".
C7_IdempotentApartFromPlaceholders ==
  (r_pc = "done" /\ NoOverlap /\ ValuesApartFromPlaceholders) =>
    /\ r_out[2] = r_out[1]
    /\ ~SomeValueOccurs(r_out[1])

\* C7, witness: two calls with two replacers of that kind have returned, and the
\* first call replaced occurrences of both values.
C7_Witness ==
  /\ r_pc = "done"
  /\ NoOverlap
  /\ ValuesApartFromPlaceholders
  /\ Len(r_replacers) = 2
  /\ \A a \in DOMAIN r_replacers :
       \E k \in 1..Len(r_input) : OccursAt(r_input, r_replacers[a][1], k)
  /\ r_out[1] # r_input

\* C8: FoundDoubleOpener is returned only for an input that holds a double-opener
\* immediately followed by another one, and carries the double-opener of the style.
C8_OnlyForQuadrupleOpener ==
  (Done /\ ret.tag = "FoundDoubleOpener") =>
    /\ \E k \in 1..Len(input) : OccursAt(input, T.double_opener \o T.double_opener, k)
    /\ ret.double_opener = T.double_opener

\* C9: NoClosingTags is returned exactly when the leftmost failing segment is not
\* empty, does not begin with the single opener and holds no double-closer, under
\* either policy; its index is the 0-based position of that segment among the
\* segments that follow a double-opener.
C9_NoClosingTagsIdentifiesSegment ==
  Done =>
    /\ ret.tag = "NoClosingTags" <=>
         (FirstFailing # 0 /\ SegKind(FirstFailing) = "unclosed")
    /\ ret.tag = "NoClosingTags" => ret.index = IndexOf(FirstFailing)

\* the segment of p with its first triple closer, if it has one, made a double closer
EscapedAsClaimed(p) ==
  LET hits == {k \in (p + 2)..(SegEnd(p) - 2) : OccursAt(input, T.triple_closer, k)}
      first == CHOOSE k \in hits : \A h \in hits : k <= h
  IN  IF hits = {} THEN Seg(p)
      ELSE SubSeq(input, p + 2, first - 1) \o T.double_closer
             \o SubSeq(input, first + 3, SegEnd(p))

\* C10: stray closers outside a live placeholder are literal text.  On an input
\* whose segments are all escaped the call returns Ok, and the output is the text
\* before the first double-opener, closers included, followed for each segment by
\* the segment with one opener character before it and the one triple closer that
\* ends the escaped placeholder made a double closer: every other run of closers is
\* where it was.
C10_StrayClosersOutsidePlaceholders ==
  (Done /\ \A p \in Openers : SegKind(p) = "escaped") =>
    ret = Ok(BeforeOpeners
               \o Concat([k \in 1..Cardinality(Openers) |->
                            T.single_opener \o EscapedAsClaimed(OpenersInOrder[k])]),
             <<>>)

====
